---- MODULE Spec2Model ----
(***************************************************************************)
(* DermaVision AI.                                                         *)
(*                                                                         *)
(* Two state machines share this module:                                   *)
(*   - the report-generation endpoint, POST of app/api/analyze/route.ts,   *)
(*     which tries the models of MODELS_TO_TRY in order (SpecServer);      *)
(*   - the wizard of app/page.tsx, DermaVisionApp: its React state, the    *)
(*     timers it arms and the calls it leaves in flight (Spec).            *)
(* Each specification leaves the other machine's variables unchanged.      *)
(***************************************************************************)
EXTENDS Integers, Sequences, FiniteSets, TLC

\* JavaScript null / undefined / an object key that is not there.
Null == "<null>"

\* JavaScript truthiness of a string-or-null value: null and "" are falsy.
Falsy(v) == v \in {Null, ""}

\* A value that is an object or null: <<>> is null, <<o>> is the object o.
None == <<>>
Some(o) == <<o>>

(***************************************************************************)
(* The endpoint: app/api/analyze/route.ts                                  *)
(***************************************************************************)
VARIABLES
    apiKey,      \* process.env.GEMINI_API_KEY || GOOGLE_GEMINI_API_KEY, or Null
    body,        \* the request body the handler was called with
    pc,          \* where the handler is: idle, key, parse, loop, await, done
    modelIdx,    \* position of the for-of loop in MODELS_TO_TRY
    lastError,   \* the local of the same name
    response,    \* what the handler returned: None, or Some response
    attempts,    \* the fetch calls issued so far, as positions in MODELS_TO_TRY
    replies      \* what each of those fetch calls came back with

serverVars == <<apiKey, body, pc, modelIdx, lastError, response, attempts, replies>>

\* The state of the wizard, app/page.tsx.
VARIABLES
    currentScreen,    \* useState<Screen>("landing")
    isTransitioning,  \* useState(false)
    isAnalyzing,      \* useState(false)
    isVisionLoading,  \* useState(false)
    scanSession,      \* useState<ScanSession>({...})
    capturedImage,    \* useState<string | null>(null)
    symptomsInput,    \* useState<string>(""), as a sequence of characters
    timers,           \* the setTimeout callbacks not yet run, oldest first
    fileReads,        \* the FileReader reads not yet loaded
    visionCalls,      \* the analyzeWithVisionAI calls awaiting the model, a set
    reportCalls,      \* the fetch('/api/analyze') calls awaiting a response
    generation,       \* history: how many times resetSession has run
    captures,         \* history: how many times performAnalysis has run
    latest,           \* history: how the call of the latest capture ended
    writers           \* history: which call wrote vision_result, llm_report, error

clientVars ==
    <<currentScreen, isTransitioning, isAnalyzing, isVisionLoading, scanSession,
      capturedImage, symptomsInput, timers, fileReads, visionCalls,
      reportCalls, generation, captures, latest, writers>>

MODELS_TO_TRY ==
    <<"gemini-2.0-flash", "gemini-2.0-pro", "gemini-1.5-flash", "gemini-1.5-pro">>

\* Messages a failing backend or a failing transport may carry.
Messages == {"quota exceeded", "fetch failed"}

\* Texts a backend may generate.
ReportTexts == {"report A", "report B"}

\* The credentials the environment may hold: none, an empty one, a real one.
ApiKeys == {Null, "", "key"}

\* The request bodies: req.json() throws on "unparsable"; JSON null parses
\* but has no properties; the others are objects with the image field absent,
\* empty, a non-string value, or a data URI.
Bodies ==
    {[kind |-> "unparsable"], [kind |-> "null"]}
    \cup {[kind |-> "object", image |-> i] :
             i \in {Null, "", "<number>", "data:image/png;base64,AAAA"}}

\* What one fetch + response.json() can come back with:
\*   throw : fetch or response.json() threw err, with err.message = msg
\*   error : a non-success status, json.error?.message = msg (or absent)
\*   ok    : a success status, candidates[0].content.parts[0].text = text
Replies ==
    {[kind |-> "throw", msg |-> m] : m \in Messages}
    \cup {[kind |-> "error", msg |-> m] : m \in Messages \cup {Null, ""}}
    \cup {[kind |-> "ok", text |-> t] : t \in ReportTexts \cup {Null, ""}}

\* NextResponse.json(payload, {status})
JsonResponse(st, payload) == Some([status |-> st, payload |-> payload])

\* No request has arrived.
NoBody == [kind |-> "none"]

ServerInit ==
    /\ apiKey \in ApiKeys
    /\ body = NoBody
    /\ pc = "idle"
    /\ modelIdx = 0
    /\ lastError = Null
    /\ response = None
    /\ attempts = <<>>
    /\ replies = <<>>

\* The framework calls POST(req).
Receive(b) ==
    /\ pc = "idle"
    /\ body' = b
    /\ pc' = "key"
    /\ UNCHANGED <<apiKey, modelIdx, lastError, response, attempts, replies, clientVars>>

\* The credential is read first: lines 18-26.
\* A variant that goes on without looking at the credential.
MutCheckKeyLate ==
    /\ pc = "key"
    /\ pc' = "parse"
    /\ UNCHANGED <<apiKey, body, modelIdx, lastError, response, attempts, replies, clientVars>>

CheckKey ==
    /\ pc = "key"
    /\ IF Falsy(apiKey)
       THEN /\ response' = JsonResponse(500, [error |-> <<"Missing GEMINI_API_KEY">>])
            /\ pc' = "done"
       ELSE /\ response' = response
            /\ pc' = "parse"
    /\ UNCHANGED <<apiKey, body, modelIdx, lastError, attempts, replies, clientVars>>

\* The fault that sends lines 28-29 to the outer catch, or Null: req.json()
\* rejects a body that is not JSON, and null cannot be destructured.
BodyFault(b) ==
    CASE b.kind = "unparsable" -> "Unexpected token"
      [] b.kind = "null" -> "Cannot destructure property 'image'"
      [] OTHER -> Null

\* if (!image): line 32.
\* A variant that only notices an absent image, not an empty one.
MutImageMissing(b) == b.image = Null

ImageMissing(b) == Falsy(b.image)

\* The fault that sends lines 39-40 to the outer catch, or Null: an image
\* that is not a string has no split.
ImageFault(b) ==
    IF b.image = "<number>" THEN "image.split is not a function" ELSE Null

\* The outer catch: lines 119-124.
\* A variant without the outer catch: the fault leaves the handler and no
\* response is built.
MutInternalError(msg) == None

InternalError(msg) ==
    JsonResponse(500, [error |-> <<"Internal server error: ", msg>>])

\* Lines 28-75: parse the body, check the image, build the payload.
ParseBody ==
    /\ pc = "parse"
    /\ IF BodyFault(body) # Null
       THEN /\ response' = InternalError(BodyFault(body))
            /\ pc' = "done"
            /\ UNCHANGED <<modelIdx, lastError>>
       ELSE IF ImageMissing(body)
       THEN /\ response' = JsonResponse(400, [error |-> <<"Image not provided">>])
            /\ pc' = "done"
            /\ UNCHANGED <<modelIdx, lastError>>
       ELSE IF ImageFault(body) # Null
       THEN /\ response' = InternalError(ImageFault(body))
            /\ pc' = "done"
            /\ UNCHANGED <<modelIdx, lastError>>
       ELSE /\ lastError' = "Unknown error"
            /\ modelIdx' = 1
            /\ pc' = "loop"
            /\ response' = response
    /\ UNCHANGED <<apiKey, body, attempts, replies, clientVars>>

\* Lines 78-88: the loop takes the next model and issues its fetch.
SendAttempt ==
    /\ pc = "loop"
    /\ modelIdx <= Len(MODELS_TO_TRY)
    /\ attempts' = Append(attempts, modelIdx)
    /\ pc' = "await"
    /\ UNCHANGED <<apiKey, body, modelIdx, lastError, response, replies, clientVars>>

\* The message lines 103, 105 and 109 take from a reply that is not a
\* success with text.
FailureMessage(r) ==
    CASE r.kind = "throw" -> r.msg
      [] r.kind = "error" -> IF Falsy(r.msg) THEN "Unknown API error" ELSE r.msg
      [] OTHER -> "Model returned no text"

\* lastError after such a reply: each assignment overwrites the last.
\* A variant that keeps the first failure.
MutRecordFailure(prev, r) ==
    IF prev = "Unknown error" THEN FailureMessage(r) ELSE prev

RecordFailure(prev, r) == FailureMessage(r)

\* if (response.ok) ... if (text): lines 92-98.
Usable(r) == r.kind = "ok" /\ ~Falsy(r.text)

\* Lines 90-112: the fetch settles; a usable text returns, anything else
\* records lastError and moves the loop on.
\* A variant that does not return on a usable text.
MutCompleteAttempt(r) ==
    /\ pc = "await"
    /\ replies' = Append(replies, r)
    /\ IF Usable(r)
       THEN /\ response' = JsonResponse(200, [result |-> r.text])
            /\ lastError' = lastError
       ELSE /\ lastError' = RecordFailure(lastError, r)
            /\ response' = response
    /\ modelIdx' = modelIdx + 1
    /\ pc' = "loop"
    /\ UNCHANGED <<apiKey, body, attempts, clientVars>>

\* A variant that tries the first model once more after it has failed.
MutRetryAttempt(r) ==
    /\ pc = "await"
    /\ replies' = Append(replies, r)
    /\ IF Usable(r)
       THEN /\ response' = JsonResponse(200, [result |-> r.text])
            /\ pc' = "done"
            /\ UNCHANGED <<modelIdx, lastError>>
       ELSE /\ lastError' = RecordFailure(lastError, r)
            /\ modelIdx' = IF Len(replies) = 0 THEN modelIdx ELSE modelIdx + 1
            /\ pc' = "loop"
            /\ response' = response
    /\ UNCHANGED <<apiKey, body, attempts, clientVars>>

CompleteAttempt(r) ==
    /\ pc = "await"
    /\ replies' = Append(replies, r)
    /\ IF Usable(r)
       THEN /\ response' = JsonResponse(200, [result |-> r.text])
            /\ pc' = "done"
            /\ UNCHANGED <<modelIdx, lastError>>
       ELSE /\ lastError' = RecordFailure(lastError, r)
            /\ modelIdx' = modelIdx + 1
            /\ pc' = "loop"
            /\ response' = response
    /\ UNCHANGED <<apiKey, body, attempts, clientVars>>

\* Lines 114-118: the loop ran out of models.
ExhaustAll ==
    /\ pc = "loop"
    /\ modelIdx > Len(MODELS_TO_TRY)
    /\ response' = JsonResponse(503,
                       [error |-> <<"All Gemini models failed. Last error: ", lastError>>])
    /\ pc' = "done"
    /\ UNCHANGED <<apiKey, body, modelIdx, lastError, attempts, replies, clientVars>>

ServerNext ==
    \/ \E b \in Bodies : Receive(b)
    \/ CheckKey
    \/ ParseBody
    \/ SendAttempt
    \/ \E r \in Replies : CompleteAttempt(r)
    \/ ExhaustAll


(***************************************************************************)
(* The wizard: app/page.tsx                                                *)
(***************************************************************************)
vars == <<serverVars, clientVars>>

\* Bounds of the model.
MaxLen == 3        \* characters the user types into the symptoms box
MaxTimers == 3     \* setTimeout callbacks pending at once
MaxCaptures == 2   \* captures in one run
MaxResets == 1     \* resets in one run
MaxReads == 1      \* file reads pending at once

Screens == {"landing", "scan", "triage", "results", "information", "about"}

\* The images a capture may deliver (data URIs).
Images == {"data:image/png;base64,AAAA"}

\* The labels the vision model may answer with.
Labels == {"mole", "rash"}

\* The characters of the symptoms box.
Alphabet == {"a", "b", ",", " "}

RECURSIVE StringsUpTo(_)
StringsUpTo(n) ==
    IF n = 0 THEN {<<>>}
    ELSE LET shorter == StringsUpTo(n - 1)
         IN  shorter \cup {Append(t, c) : t \in {u \in shorter : Len(u) = n - 1},
                                          c \in Alphabet}

SymptomTexts == StringsUpTo(MaxLen)

\* What the user types in the wizard's own specification: one symptom, or
\* nothing but a comma and a blank.
TypedTexts == {<<"a">>, <<",", " ">>}

\* The statuses the endpoint answers a failed request with.
ErrorStatuses == {400, 500, 503}

\* data.result of a successful response.
Reports == {"report A"}

\* ---- strings -----------------------------------------------------------

\* String.prototype.split(","): the pieces between the commas, empty ones
\* included; a string without a comma is its own single piece.
RECURSIVE Split(_)
Split(s) ==
    IF \A i \in 1..Len(s) : s[i] # ","
    THEN <<s>>
    ELSE LET i == CHOOSE k \in 1..Len(s) :
                      s[k] = "," /\ \A j \in 1..(k - 1) : s[j] # ","
         IN  <<SubSeq(s, 1, i - 1)>> \o Split(SubSeq(s, i + 1, Len(s)))

\* String.prototype.trim(): drop the white space at both ends.
RECURSIVE TrimStart(_)
TrimStart(s) ==
    IF s # <<>> /\ Head(s) = " " THEN TrimStart(Tail(s)) ELSE s

RECURSIVE TrimEnd(_)
TrimEnd(s) ==
    IF s # <<>> /\ s[Len(s)] = " " THEN TrimEnd(SubSeq(s, 1, Len(s) - 1)) ELSE s

\* A variant that leaves the white space at the end.
MutTrim(s) == TrimStart(s)

Trim(s) == TrimEnd(TrimStart(s))

\* symptomsInput.split(",").map((s) => s.trim()).filter((s) => s): line 256.
\* A variant that filters before it trims.
MutParseSymptoms(text) ==
    LET pieces == SelectSeq(Split(text), LAMBDA p : p # <<>>)
    IN  [i \in 1..Len(pieces) |-> Trim(pieces[i])]

ParseSymptoms(text) ==
    LET pieces == Split(text)
        trimmed == [i \in 1..Len(pieces) |-> Trim(pieces[i])]
    IN  SelectSeq(trimmed, LAMBDA p : p # <<>>)

\* ---- state -------------------------------------------------------------

\* The object resetSession and useState build: lines 161-166 and 297.
\* llm_report and error are keys the object does not have.
EmptySession ==
    [symptoms |-> <<>>, risk_score |-> 0, image_url |-> Null,
     vision_result |-> None, llm_report |-> Null, error |-> Null]

NoWriters == [vision |-> None, report |-> None, reportOf |-> None, error |-> None]

ClientInit ==
    /\ currentScreen = "landing"
    /\ isTransitioning = FALSE
    /\ isAnalyzing = FALSE
    /\ isVisionLoading = FALSE
    /\ scanSession = EmptySession
    /\ capturedImage = Null
    /\ symptomsInput = <<>>
    /\ timers = <<>>
    /\ fileReads = <<>>
    /\ visionCalls = {}
    /\ reportCalls = <<>>
    /\ generation = 0
    /\ captures = 0
    /\ latest = [id |-> 0, gen |-> 0, outcome |-> "none"]
    /\ writers = NoWriters

\* A sequence without its i-th element.
Without(seq, i) == SubSeq(seq, 1, i - 1) \o SubSeq(seq, i + 1, Len(seq))

\* navigateToScreen: lines 174-180. The callback is armed for 300 ms.
NavTimer(screen) == [kind |-> "nav", screen |-> screen]

\* The timers left when navigateToScreen(screen) has run.
Navigated(ts, screen) == Append(ts, NavTimer(screen))

\* ---- capture ------------------------------------------------------------

\* LandingPage, the start button: line 320.
StartScan ==
    /\ currentScreen = "landing"
    /\ Len(timers) < MaxTimers
    /\ isTransitioning' = TRUE
    /\ timers' = Navigated(timers, "scan")
    /\ UNCHANGED <<serverVars, currentScreen, isAnalyzing, isVisionLoading,
                   scanSession, capturedImage, symptomsInput, fileReads,
                   visionCalls, reportCalls, generation, captures, latest, writers>>

\* ScanPage, the close button: line 331.
CancelScan ==
    /\ currentScreen = "scan"
    /\ Len(timers) < MaxTimers
    /\ isTransitioning' = TRUE
    /\ timers' = Navigated(timers, "landing")
    /\ UNCHANGED <<serverVars, currentScreen, isAnalyzing, isVisionLoading,
                   scanSession, capturedImage, symptomsInput, fileReads,
                   visionCalls, reportCalls, generation, captures, latest, writers>>

\* performAnalysis, with analyzeWithVisionAI up to its first await:
\* lines 212-221 and 183-187.
PerformAnalysis(imageSrc) ==
    /\ captures < MaxCaptures
    /\ Len(timers) < MaxTimers
    /\ capturedImage' = imageSrc
    /\ scanSession' = [scanSession EXCEPT !.image_url = imageSrc]
    /\ isVisionLoading' = TRUE
    /\ visionCalls' = visionCalls \cup
           {[id |-> captures + 1, image |-> imageSrc, gen |-> generation]}
    /\ isTransitioning' = TRUE
    /\ timers' = Navigated(timers, "triage")
    /\ captures' = captures + 1
    /\ latest' = [id |-> captures + 1, gen |-> generation, outcome |-> "pending"]
    /\ UNCHANGED <<serverVars, currentScreen, isAnalyzing, symptomsInput, reportCalls, generation, writers>>

\* handleWebcamCapture, called by SkinScanner while ScanPage is mounted:
\* lines 223 and 335.
WebcamCapture(imageSrc) ==
    /\ currentScreen = "scan"
    /\ PerformAnalysis(imageSrc)
    /\ UNCHANGED fileReads

\* handleFileUpload: lines 225-235. The upload button is disabled by
\* isAnalyzing (line 339), which nothing ever sets.
FileUpload(imageSrc) ==
    /\ currentScreen = "scan"
    /\ ~isAnalyzing
    /\ Len(fileReads) < MaxReads
    /\ fileReads' = Append(fileReads, imageSrc)
    /\ UNCHANGED <<serverVars, currentScreen, isTransitioning, isAnalyzing,
                   isVisionLoading, scanSession, capturedImage, symptomsInput,
                   timers, visionCalls, reportCalls, generation,
                   captures, latest, writers>>

\* reader.onload: lines 229-232.
FileLoaded(i) ==
    /\ i \in 1..Len(fileReads)
    /\ PerformAnalysis(fileReads[i])
    /\ fileReads' = Without(fileReads, i)

\* ---- classification ----------------------------------------------------

\* How the latest capture's call ended, when call c has just ended.
Settled(c, outcome) ==
    IF latest.id = c.id
    THEN [latest EXCEPT !.outcome = outcome]
    ELSE latest

\* The write of lines 198-201.
VisionWrite(session, call, label) ==
    [session EXCEPT !.vision_result = Some([label |-> label])]

\* analyzeWithVisionAI, app.predict resolved: lines 193-201 and 206-208.
VisionResolve(id, label) ==
    /\ \E call \in visionCalls :
         /\ call.id = id
         /\ scanSession' = VisionWrite(scanSession, call, label)
         /\ visionCalls' = visionCalls \ {call}
         /\ writers' = [writers EXCEPT !.vision = Some(call)]
         /\ latest' = Settled(call, label)
    /\ isVisionLoading' = FALSE
    /\ UNCHANGED <<serverVars, currentScreen, isTransitioning, isAnalyzing,
                   capturedImage, symptomsInput, timers, fileReads,
                   reportCalls, generation, captures>>

\* analyzeWithVisionAI, one of its awaits rejected: lines 203-208.
\* A variant without the finally block: the flag stays up.
MutVisionFail(id) ==
    /\ \E call \in visionCalls :
         /\ call.id = id
         /\ visionCalls' = visionCalls \ {call}
         /\ latest' = Settled(call, "failed")
    /\ UNCHANGED <<serverVars, currentScreen, isTransitioning, isAnalyzing,
                   scanSession, capturedImage, symptomsInput, timers, fileReads,
                   reportCalls, generation, captures, writers, isVisionLoading>>

VisionFail(id) ==
    /\ \E call \in visionCalls :
         /\ call.id = id
         /\ visionCalls' = visionCalls \ {call}
         /\ latest' = Settled(call, "failed")
    /\ isVisionLoading' = FALSE
    /\ UNCHANGED <<serverVars, currentScreen, isTransitioning, isAnalyzing,
                   scanSession, capturedImage, symptomsInput, timers, fileReads,
                   reportCalls, generation, captures, writers>>

\* ---- symptoms ----------------------------------------------------------

\* handleSymptomsChange, from the textarea of TriagePage: lines 247-249, 93-95.
HandleSymptomsChange(text) ==
    /\ currentScreen = "triage"
    /\ text # symptomsInput
    /\ symptomsInput' = text
    /\ UNCHANGED <<serverVars, currentScreen, isTransitioning, isAnalyzing,
                   isVisionLoading, scanSession, capturedImage, timers,
                   fileReads, visionCalls, reportCalls, generation, captures,
                   latest, writers>>

\* The callback of lines 269-293, armed for 500 ms. It closes over the
\* capturedImage, symptoms and scanSession of the render that was clicked.
ReportTimer(symptoms) ==
    [kind |-> "report",
     body |-> [image |-> capturedImage, symptoms |-> symptoms,
               visionAnalysis |-> scanSession.vision_result],
     gen |-> generation, input |-> symptomsInput, seen |-> latest]

\* The vision status indicator of TriagePage, which is handed
\* isVisionLoading as isAnalyzingVision: lines 74-86 and 416.
VisionStatus ==
    IF isVisionLoading
    THEN "Analyzing image with AI Model..."
    ELSE "Image Analysis Complete"

\* disabled={isAnalyzingVision} on the button of TriagePage, which is
\* handed isVisionLoading: lines 140-142 and 416.
\* A variant whose button is never disabled.
MutSubmitDisabled == FALSE

SubmitDisabled == isVisionLoading

\* proceedToResults, from the button of TriagePage: lines 255-294.
ProceedToResults ==
    /\ currentScreen = "triage"
    /\ ~SubmitDisabled
    /\ LET symptoms == ParseSymptoms(symptomsInput)
       IN  IF symptoms = <<>>
           THEN UNCHANGED <<scanSession, isTransitioning, timers>>
           ELSE /\ Len(timers) + 2 <= MaxTimers
                /\ scanSession' = [scanSession EXCEPT !.symptoms = symptoms]
                /\ isTransitioning' = TRUE
                /\ timers' = Append(Navigated(timers, "results"), ReportTimer(symptoms))
    /\ UNCHANGED <<serverVars, currentScreen, isAnalyzing, isVisionLoading,
                   capturedImage, symptomsInput, fileReads, visionCalls,
                   reportCalls, generation, captures, latest, writers>>

\* ---- timers ------------------------------------------------------------

\* The callback of navigateToScreen runs: lines 176-179. Navigation timers
\* run in the order they were armed.
NavFire(i) ==
    /\ i \in 1..Len(timers)
    /\ timers[i].kind = "nav"
    /\ \A j \in 1..(i - 1) : timers[j].kind # "nav"
    /\ currentScreen' = timers[i].screen
    /\ isTransitioning' = FALSE
    /\ timers' = Without(timers, i)
    /\ UNCHANGED <<serverVars, isAnalyzing, isVisionLoading, scanSession,
                   capturedImage, symptomsInput, fileReads, visionCalls,
                   reportCalls, generation, captures, latest, writers>>

\* The fetch a report timer issues: JSON.stringify of what it closed over.
Request(timer) ==
    [body |-> timer.body, gen |-> timer.gen, input |-> timer.input,
     seen |-> timer.seen]

\* The callback of proceedToResults runs and issues its fetch: lines
\* 269-280. Its 500 ms outlast every timer armed before it.
ReportFire ==
    /\ timers # <<>>
    /\ Head(timers).kind = "report"
    /\ reportCalls' = Append(reportCalls, Request(Head(timers)))
    /\ timers' = Tail(timers)
    /\ UNCHANGED <<serverVars, currentScreen, isTransitioning, isAnalyzing,
                   isVisionLoading, scanSession, capturedImage, symptomsInput,
                   fileReads, visionCalls, generation, captures,
                   latest, writers>>

\* ---- report ------------------------------------------------------------

\* The write of line 287.
\* A variant that spreads the session of the render that was clicked, in
\* which the symptoms were not stored yet, instead of prev.
MutReportWrite(session, call, result) ==
    [session EXCEPT !.llm_report = result, !.symptoms = <<>>]

ReportWrite(session, call, result) == [session EXCEPT !.llm_report = result]

\* new Error(`API Error: ${response.status}`).message: line 282.
ApiError(status) ==
    CASE status = 400 -> "API Error: 400"
      [] status = 500 -> "API Error: 500"
      [] status = 503 -> "API Error: 503"

\* The write of line 291.
\* A variant that builds the session anew around the error.
MutErrorWrite(session, call, message) ==
    [symptoms |-> <<>>, risk_score |-> 0, image_url |-> session.image_url,
     vision_result |-> None, llm_report |-> Null, error |-> message]

ErrorWrite(session, call, message) == [session EXCEPT !.error = message]

\* The fetch resolved with a success status and a result: lines 282-288.
ReportOk(i, result) ==
    /\ i \in 1..Len(reportCalls)
    /\ scanSession' = ReportWrite(scanSession, reportCalls[i], result)
    /\ writers' = [writers EXCEPT !.report = Some(reportCalls[i].gen),
                                  !.reportOf = Some(reportCalls[i].seen.id)]
    /\ reportCalls' = Without(reportCalls, i)
    /\ UNCHANGED <<serverVars, currentScreen, isTransitioning, isAnalyzing,
                   isVisionLoading, capturedImage, symptomsInput, timers,
                   fileReads, visionCalls, generation, captures, latest>>

\* The fetch resolved with a failure status: lines 282 and 289-292.
ReportStatus(i, status) ==
    /\ i \in 1..Len(reportCalls)
    /\ scanSession' = ErrorWrite(scanSession, reportCalls[i], ApiError(status))
    /\ writers' = [writers EXCEPT !.error = Some(reportCalls[i].gen)]
    /\ reportCalls' = Without(reportCalls, i)
    /\ UNCHANGED <<serverVars, currentScreen, isTransitioning, isAnalyzing,
                   isVisionLoading, capturedImage, symptomsInput, timers,
                   fileReads, visionCalls, generation, captures, latest>>

\* The fetch rejected: lines 271 and 289-292.
ReportReject(i) ==
    /\ i \in 1..Len(reportCalls)
    /\ scanSession' = ErrorWrite(scanSession, reportCalls[i], "Failed to fetch")
    /\ writers' = [writers EXCEPT !.error = Some(reportCalls[i].gen)]
    /\ reportCalls' = Without(reportCalls, i)
    /\ UNCHANGED <<serverVars, currentScreen, isTransitioning, isAnalyzing,
                   isVisionLoading, capturedImage, symptomsInput, timers,
                   fileReads, visionCalls, generation, captures, latest>>

\* ---- results ------------------------------------------------------------

\* What ResultsPage puts on the screen for a session: lines 376-386 choose
\* the panel by llm_report alone, line 398 disables the download button
\* without one. No line of the page reads the session's error.
ResultsPage(session) ==
    IF Falsy(session.llm_report)
    THEN [verdict |-> "Generating Medical Report...", download |-> FALSE]
    ELSE [verdict |-> session.llm_report, download |-> TRUE]

\* ---- reset -------------------------------------------------------------

\* resetSession, from the button of ResultsPage: lines 296-303 and 404.
\* A variant that resets the session object and forgets the captured image
\* and the typed text.
MutResetSession ==
    /\ currentScreen = "results"
    /\ generation < MaxResets
    /\ Len(timers) < MaxTimers
    /\ scanSession' = EmptySession
    /\ isAnalyzing' = FALSE
    /\ isVisionLoading' = FALSE
    /\ isTransitioning' = TRUE
    /\ timers' = Navigated(timers, "landing")
    /\ generation' = generation + 1
    /\ writers' = NoWriters
    /\ UNCHANGED <<serverVars, currentScreen, fileReads, visionCalls,
                   reportCalls, captures, latest, symptomsInput, capturedImage>>

ResetSession ==
    /\ currentScreen = "results"
    /\ generation < MaxResets
    /\ Len(timers) < MaxTimers
    /\ scanSession' = EmptySession
    /\ symptomsInput' = <<>>
    /\ capturedImage' = Null
    /\ isAnalyzing' = FALSE
    /\ isVisionLoading' = FALSE
    /\ isTransitioning' = TRUE
    /\ timers' = Navigated(timers, "landing")
    /\ generation' = generation + 1
    /\ writers' = NoWriters
    /\ UNCHANGED <<serverVars, currentScreen, fileReads, visionCalls,
                   reportCalls, captures, latest>>

\* ---- specifications ----------------------------------------------------

\* The endpoint of the wizard's own specification: idle, with a credential.
ServerIdle ==
    /\ apiKey = "key"
    /\ body = NoBody
    /\ pc = "idle"
    /\ modelIdx = 0
    /\ lastError = Null
    /\ response = None
    /\ attempts = <<>>
    /\ replies = <<>>

Init == ServerIdle /\ ClientInit

Next ==
    \/ StartScan
    \/ CancelScan
    \/ \E img \in Images : WebcamCapture(img)
    \/ \E img \in Images : FileUpload(img)
    \/ \E i \in 1..MaxReads : FileLoaded(i)
    \/ \E id \in 1..MaxCaptures, l \in Labels : VisionResolve(id, l)
    \/ \E id \in 1..MaxCaptures : VisionFail(id)
    \/ \E text \in TypedTexts : HandleSymptomsChange(text)
    \/ ProceedToResults
    \/ \E i \in 1..MaxTimers : NavFire(i)
    \/ ReportFire
    \/ \E i \in 1..MaxTimers, r \in Reports : ReportOk(i, r)
    \/ \E i \in 1..MaxTimers, st \in ErrorStatuses : ReportStatus(i, st)
    \/ \E i \in 1..MaxTimers : ReportReject(i)
    \/ ResetSession

Spec == Init /\ [][Next]_vars

ServerStart == ServerInit /\ ClientInit

SpecServer == ServerStart /\ [][ServerNext]_vars

\* The endpoint running: the handler's own steps are taken, and every
\* fetch it awaits settles, with a response or with a rejection.
SpecServerRuns ==
    /\ SpecServer
    /\ WF_vars(CheckKey \/ ParseBody \/ SendAttempt \/ ExhaustAll)
    /\ WF_vars(\E r \in Replies : CompleteAttempt(r))

\* The wizard with its timers running: a callback handed to setTimeout
\* (lines 176 and 269) is run by the event loop once its delay is over.
SpecTimers ==
    /\ Spec
    /\ WF_vars(\E i \in 1..MaxTimers : NavFire(i))
    /\ WF_vars(ReportFire)

\* One pass through the wizard with everything the symptoms box can hold:
\* a single capture, its classification, any text typed while no timer is
\* pending, the submission and the request it leads to.
FirstCapture(imageSrc) ==
    /\ captures = 0
    /\ WebcamCapture(imageSrc)

TypeAtRest(text) ==
    /\ timers = <<>>
    /\ HandleSymptomsChange(text)

SymptomsNext ==
    \/ StartScan
    \/ \E img \in Images : FirstCapture(img)
    \/ \E id \in 1..MaxCaptures, l \in Labels : VisionResolve(id, l)
    \/ \E id \in 1..MaxCaptures : VisionFail(id)
    \/ \E text \in SymptomTexts : TypeAtRest(text)
    \/ ProceedToResults
    \/ \E i \in 1..MaxTimers : NavFire(i)
    \/ ReportFire
    \/ \E i \in 1..MaxTimers, r \in Reports : ReportOk(i, r)

SpecSymptoms == Init /\ [][SymptomsNext]_vars

(***************************************************************************)
(* Properties of the endpoint, checked under SpecServer                    *)
(***************************************************************************)

\* A reply that yields no report: the transport failed, the status is not
\* a success, or the success carries no text.
Failed(r) ==
    \/ r.kind \in {"throw", "error"}
    \/ r.kind = "ok" /\ r.text \in {Null, ""}

\* A reply that yields a report.
Succeeded(r) == r.kind = "ok" /\ r.text \in ReportTexts

\* The first n positions of the list, in order.
FirstPositions(n) == [i \in 1..n |-> i]

\* C1: when candidates 1..K-1 have failed and candidate K has answered a
\* success with text, the handler has issued exactly the attempts 1..K, is
\* done, and has responded 200 with candidate K's text; being done, it
\* attempts none of K+1..N.
C1_FirstSuccessWins ==
    \A K \in 1..Len(MODELS_TO_TRY) :
        ( /\ Len(replies) >= K
          /\ \A j \in 1..(K - 1) : Failed(replies[j])
          /\ Succeeded(replies[K]) )
        => /\ pc = "done"
           /\ attempts = FirstPositions(K)
           /\ replies = SubSeq(replies, 1, K)
           /\ response = Some([status |-> 200,
                               payload |-> [result |-> replies[K].text]])

\* C1 witness: two candidates failed, one of them with a success status
\* and no text, and the third answered with text.
C1_Witness ==
    /\ Len(replies) = 3
    /\ replies[1].kind = "throw"
    /\ replies[2].kind = "ok"
    /\ Failed(replies[2])
    /\ Succeeded(replies[3])
    /\ pc = "done"

\* The diagnostic the last candidate's failure amounts to.
Diagnostic(r) ==
    IF r.kind = "ok" THEN "Model returned no text"
    ELSE IF r.kind = "error" /\ r.msg \in {Null, ""} THEN "Unknown API error"
    ELSE r.msg

\* C2: when every candidate has failed and the handler is done, it has
\* responded 503 and the diagnostic is the failure message of the last
\* candidate attempted.
C2_LastDiagnostic ==
    ( /\ pc = "done"
      /\ Len(replies) = Len(MODELS_TO_TRY)
      /\ \A j \in 1..Len(replies) : Failed(replies[j]) )
    => response = Some([status |-> 503,
                        payload |-> [error |-> <<"All Gemini models failed. Last error: ",
                                                 Diagnostic(replies[Len(replies)])>>]])

\* C2 witness: all four failed, the first and the last differently.
C2_Witness ==
    /\ pc = "done"
    /\ Len(replies) = Len(MODELS_TO_TRY)
    /\ \A j \in 1..Len(replies) : Failed(replies[j])
    /\ replies[1].kind = "throw"
    /\ replies[2].kind = "ok"
    /\ replies[4] = [kind |-> "error", msg |-> "quota exceeded"]
    /\ replies[1].msg # "quota exceeded"

\* C3: without a credential no attempt is ever issued, and the handler ends
\* with 500 "Missing GEMINI_API_KEY", whatever the body.
C3_NoCredential ==
    apiKey \in {Null, ""}
    => /\ attempts = <<>>
       /\ pc = "done" =>
              response = Some([status |-> 500,
                               payload |-> [error |-> <<"Missing GEMINI_API_KEY">>]])

\* C3 witness: no credential, a body that cannot be parsed, handler done.
C3_Witness ==
    /\ apiKey = Null
    /\ body.kind = "unparsable"
    /\ pc = "done"

\* C4: with a credential, a body whose image field is empty or absent gets
\* no attempt, and the handler ends with 400 "Image not provided".
C4_MissingImage ==
    ( /\ apiKey \notin {Null, ""}
      /\ body.kind = "object"
      /\ body.image \in {Null, ""} )
    => /\ attempts = <<>>
       /\ pc = "done" =>
              response = Some([status |-> 400,
                               payload |-> [error |-> <<"Image not provided">>]])

\* C4 witness: a credential, an empty image, handler done.
C4_Witness ==
    /\ apiKey = "key"
    /\ body.kind = "object"
    /\ body.image = ""
    /\ pc = "done"

(***************************************************************************)
(* Properties of the symptoms guard, checked under SpecSymptoms            *)
(***************************************************************************)

\* A text with nothing in it but commas and white space.
Blank(t) == \A i \in 1..Len(t) : t[i] \in {",", " "}

\* The positions that delimit the comma-separated fields of t: its commas,
\* and the two ends.
Separators(t) == {0, Len(t) + 1} \cup {i \in 1..Len(t) : t[i] = ","}

\* The field that starts after separator p, without the white space around it.
Kernel(t, p) ==
    LET q == CHOOSE e \in Separators(t) :
                 e > p /\ \A f \in Separators(t) : f > p => e <= f
        solid == {i \in (p + 1)..(q - 1) : t[i] # " "}
        first == CHOOSE i \in solid : \A j \in solid : i <= j
        last == CHOOSE i \in solid : \A j \in solid : i >= j
    IN  IF solid = {} THEN <<>> ELSE SubSeq(t, first, last)

\* The non-empty fields of t, trimmed, in the order they are written.
Pieces(t) ==
    LET starts == {p \in Separators(t) \ {Len(t) + 1} : Kernel(t, p) # <<>>}
    IN  [k \in 1..Cardinality(starts) |->
            Kernel(t, CHOOSE p \in starts :
                          Cardinality({o \in starts : o <= p}) = k)]

\* A step of some handler other than proceedToResults: a timer ran, a call
\* settled, the text changed, an image arrived.
OtherHandler ==
    \/ Len(timers') < Len(timers)
    \/ visionCalls' # visionCalls
    \/ reportCalls' # reportCalls
    \/ symptomsInput' # symptomsInput
    \/ captures' # captures
    \/ fileReads' # fileReads

\* C7: on the symptoms screen, with a text that holds no symptom, a click
\* on the button changes nothing: the session, the screen and the timers
\* stay as they are, so no navigation and no report request is armed; and
\* no report timer or request anywhere comes from such a text.
C7_BlankRejected ==
    [][ /\ (currentScreen = "triage" /\ Blank(symptomsInput) /\ ~OtherHandler)
           => UNCHANGED clientVars
        /\ \A i \in DOMAIN timers' :
               timers'[i].kind = "report" => ~Blank(timers'[i].input)
        /\ \A i \in DOMAIN reportCalls' : ~Blank(reportCalls'[i].input)
      ]_vars

\* C7 witness: the button is enabled and the text is white space around a
\* comma.
C7_Witness ==
    /\ currentScreen = "triage"
    /\ ~isVisionLoading
    /\ symptomsInput = <<" ", ",", " ">>

\* C8: a click that is accepted (it arms the two timers) writes into the
\* session exactly the trimmed non-empty fields of the text, in order and
\* with duplicates, arms the navigation to Results and a report timer that
\* carries the same list; the request a report timer issues carries it
\* too; and when that navigation timer runs the screen is Results.
C8_SymptomsParsed ==
    [][ /\ Len(timers') = Len(timers) + 2
           => /\ Pieces(symptomsInput) # <<>>
              /\ scanSession'.symptoms = Pieces(symptomsInput)
              /\ timers'[Len(timers) + 1] = NavTimer("results")
              /\ timers'[Len(timers) + 2].kind = "report"
              /\ timers'[Len(timers) + 2].body.symptoms = Pieces(symptomsInput)
        /\ \A i \in DOMAIN reportCalls' :
               reportCalls'[i].body.symptoms = Pieces(reportCalls'[i].input)
        /\ ( /\ Len(timers') < Len(timers)
             /\ \E i \in DOMAIN timers :
                    /\ timers[i] = NavTimer("results")
                    /\ \A j \in 1..(i - 1) : timers[j].kind # "nav"
                    /\ timers' = Without(timers, i) )
           => currentScreen' = "results"
      ]_vars

\* C8 witness: "b, a" was submitted: the session and the request in flight
\* hold b then a, and the screen is Results.
C8_Witness ==
    /\ currentScreen = "results"
    /\ scanSession.symptoms = << <<"b">>, <<"a">> >>
    /\ \E i \in DOMAIN reportCalls :
           /\ reportCalls[i].input = <<"b", ",", "a">>
           /\ reportCalls[i].body.symptoms = << <<"b">>, <<"a">> >>

(***************************************************************************)
(* Properties of the wizard's background calls, checked under Spec         *)
(***************************************************************************)

\* C5: the classification the session holds was written by a call issued
\* for this session: a call issued before a reset that resolves after it
\* leaves the fresh session's classification field empty.
C5_StaleClassificationSuppressed ==
    scanSession.vision_result # None => writers.vision[1].gen = generation

\* C6: the report and the error the session holds were written by a
\* request submitted in this session: a request submitted before a reset
\* sets neither field of the fresh session.
C6_StaleReportSuppressed ==
    /\ scanSession.llm_report # Null => writers.report = Some(generation)
    /\ scanSession.error # Null => writers.error = Some(generation)

\* C9: a request whose submission came after the classification of the
\* session's latest capture had resolved with a label carries that label,
\* and the symptoms that were submitted.
C9_LabelCarried ==
    \A i \in DOMAIN reportCalls :
        LET r == reportCalls[i]
        IN  (r.seen.gen = r.gen /\ r.seen.outcome \in Labels)
            => /\ r.body.visionAnalysis = Some([label |-> r.seen.outcome])
               /\ r.body.symptoms = Pieces(r.input)

\* C10: a request whose submission came while the classification of the
\* session's latest capture was still outstanding carries no classification.
C10_NullBeforeClassification ==
    \A i \in DOMAIN reportCalls :
        LET r == reportCalls[i]
        IN  (r.seen.gen = r.gen /\ r.seen.outcome = "pending")
            => r.body.visionAnalysis = None

(***************************************************************************)
(* Properties of the wizard's screens, checked under Spec                  *)
(***************************************************************************)

\* The click on the submit button has room for its two timers.
RoomToSubmit == Len(timers) + 2 <= MaxTimers

C12_ThreeStates ==
    currentScreen = "results"
    => /\ (scanSession.llm_report = Null /\ scanSession.error # Null)
          => ResultsPage(scanSession) #
                 ResultsPage([scanSession EXCEPT !.error = Null])
       /\ scanSession.llm_report # Null
          => /\ ResultsPage(scanSession).verdict = scanSession.llm_report
             /\ ResultsPage(scanSession) #
                    ResultsPage([scanSession EXCEPT !.llm_report = Null])

\* What a report request that failed leaves in the session's error field:
\* the status of a reply that is not a success, or the transport's message.
FailureTexts ==
    {"API Error: 400", "API Error: 500", "API Error: 503", "Failed to fetch"}

\* C13: when a report request comes back, either its result is stored as
\* the report or, on a failure status or a failed transport, the failure
\* is stored in the session's error field; storing the failure leaves the
\* symptoms, the image, the classification and the report of the session,
\* the captured image and the typed text as they were. A request that
\* comes back to a session without a report and leaves it without one
\* has failed and has stored its failure.
C13_FailureStored ==
    [][ Len(reportCalls') < Len(reportCalls)
        => /\ \/ \E r \in Reports :
                    /\ scanSession' = [scanSession EXCEPT !.llm_report = r]
                    /\ scanSession'.error = scanSession.error
              \/ \E m \in FailureTexts :
                    /\ scanSession'.error = m
                    /\ scanSession'.symptoms = scanSession.symptoms
                    /\ scanSession'.image_url = scanSession.image_url
                    /\ scanSession'.vision_result = scanSession.vision_result
                    /\ scanSession'.llm_report = scanSession.llm_report
                    /\ scanSession'.risk_score = scanSession.risk_score
           /\ (scanSession.llm_report = Null /\ scanSession'.llm_report = Null)
              => scanSession'.error \in FailureTexts
           /\ capturedImage' = capturedImage
           /\ symptomsInput' = symptomsInput
      ]_vars

\* C13 witness: a failure is stored in a session that still holds its
\* symptoms, its image and its classification, with the captured image.
C13_Witness ==
    /\ scanSession.error = "API Error: 503"
    /\ scanSession.symptoms = << <<"a">> >>
    /\ scanSession.image_url \in Images
    /\ scanSession.vision_result # None
    /\ capturedImage \in Images
    /\ reportCalls = <<>>

\* C14: a reset, from whatever state the Results screen is in (a report
\* shown, an error stored, a request or a classification still
\* outstanding, timers pending), leaves the session with no symptoms, risk
\* score 0, no image, no classification, no report and no error, clears
\* the captured image, the typed text and both loading flags, and arms the
\* navigation to Landing; when a navigation to Landing runs, the screen is
\* Landing.
C14_ResetToInitial ==
    [][ /\ generation' # generation
           => /\ currentScreen = "results"
              /\ scanSession'.symptoms = <<>>
              /\ scanSession'.risk_score = 0
              /\ scanSession'.image_url = Null
              /\ scanSession'.vision_result = None
              /\ scanSession'.llm_report = Null
              /\ scanSession'.error = Null
              /\ capturedImage' = Null
              /\ symptomsInput' = <<>>
              /\ ~isAnalyzing' /\ ~isVisionLoading'
              /\ timers' = Append(timers, NavTimer("landing"))
        /\ ( /\ Len(timers') < Len(timers)
             /\ \E i \in DOMAIN timers :
                    /\ timers[i] = NavTimer("landing")
                    /\ \A j \in 1..(i - 1) : timers[j].kind # "nav"
                    /\ timers' = Without(timers, i) )
           => currentScreen' = "landing"
      ]_vars

\* C14 witness: a reset was pressed on the Results screen, and its
\* navigation has brought the empty session to Landing.
C14_Witness ==
    /\ generation = 1
    /\ currentScreen = "landing"
    /\ timers = <<>>
    /\ scanSession.symptoms = <<>>
    /\ scanSession.image_url = Null
    /\ scanSession.llm_report = Null
    /\ capturedImage = Null
    /\ symptomsInput = <<>>

\* C15: while the session's latest capture belongs to the session (no
\* reset since), the classification the session holds, if a call of this
\* session wrote it, is the one of that capture, and so is the report, if
\* a request of this session wrote it: nothing produced for an earlier
\* image stays in the session once a new capture has started.
C15_NewCaptureInvalidates ==
    (latest.id > 0 /\ latest.gen = generation)
    => /\ ( /\ scanSession.vision_result # None
             /\ writers.vision[1].gen = generation )
          => writers.vision[1].id = latest.id
       /\ ( /\ scanSession.llm_report # Null
             /\ writers.report = Some(generation) )
          => writers.reportOf = Some(latest.id)

\* The report requests that are scheduled (their timer is pending) or
\* outstanding (their fetch has not come back).
ReportsLive ==
    Cardinality({i \in DOMAIN timers : timers[i].kind = "report"}) + Len(reportCalls)

\* C16: at most one classification call is outstanding, and at most one
\* report request is scheduled or outstanding, whatever capture and submit
\* events arrive while a navigation is pending.
C16_OneCycleLive ==
    /\ Cardinality(visionCalls) <= 1
    /\ ReportsLive <= 1

\* A submission made after the classification of the latest capture failed.
AfterFailure(r) == r.seen.outcome = "failed"

\* A submission made after the classification of the run's first capture
\* failed, when no other call had been started.
AfterFirstFailure(r) == r.seen = [id |-> 1, gen |-> 0, outcome |-> "failed"]

C18_ValuesAtExpiry ==
    [][ Len(reportCalls') > Len(reportCalls)
        => LET r == reportCalls'[Len(reportCalls')]
           IN  /\ r.body.image = scanSession.image_url
               /\ r.body.visionAnalysis = scanSession.vision_result
      ]_vars

(***************************************************************************)
(* Properties of the endpoint's loop and responses, under SpecServer       *)
(***************************************************************************)

\* C19: within one invocation the attempts issued so far are the first
\* positions of the list, in the list's order and each once; an attempt is
\* issued only when every earlier one has been answered, so at most one
\* is in flight, and one is in flight exactly while the handler awaits.
C19_SequentialPrefix ==
    /\ Len(attempts) <= Len(MODELS_TO_TRY)
    /\ attempts = FirstPositions(Len(attempts))
    /\ Len(attempts) - Len(replies) \in {0, 1}
    /\ Len(attempts) - Len(replies) = 1 <=> pc = "await"
    /\ pc = "await" => modelIdx = Len(attempts)

\* C19 witness: three candidates have answered with failures and the
\* fourth attempt is in flight.
C19_Witness ==
    /\ attempts = <<1, 2, 3, 4>>
    /\ Len(replies) = 3
    /\ pc = "await"

\* The status of the response the handler has built.
Status == response[1].status

\* C20: a request that has been received ends with the handler done; the
\* handler is done exactly when it has built its response, and a response
\* once built is never replaced; its status is 200, 400, 500 or 503: 200
\* exactly when a candidate answered a success with text, 400 exactly when
\* the credential is there and the body's image is absent or empty, 503
\* exactly when all four candidates were attempted and none gave text,
\* 500 exactly when the credential is missing or the body or its image
\* makes the handler throw.
C20_OneResponse ==
    /\ [](pc = "done" <=> response # None)
    /\ [][response # None => response' = response]_vars
    /\ []( (pc = "done" /\ response # None)
           => /\ Status \in {200, 400, 500, 503}
              /\ Status = 200 <=> \E j \in DOMAIN replies : Succeeded(replies[j])
              /\ Status = 400 <=> /\ apiKey \notin {Null, ""}
                                  /\ body.kind = "object"
                                  /\ body.image \in {Null, ""}
              /\ Status = 503 <=> /\ Len(replies) = Len(MODELS_TO_TRY)
                                  /\ \A j \in DOMAIN replies : Failed(replies[j])
              /\ Status = 500 <=> \/ apiKey \in {Null, ""}
                                  \/ body.kind \in {"unparsable", "null"}
                                  \/ body.kind = "object" /\ body.image = "<number>" )
    /\ (pc = "key") ~> (pc = "done")

\* C20 witness: with a credential, a body that cannot be parsed has been
\* answered with 500.
C20_Witness ==
    /\ apiKey = "key"
    /\ body.kind = "unparsable"
    /\ pc = "done"
    /\ response # None
    /\ Status = 500

(***************************************************************************)
(* Properties of the loading flag and of the session writes, under Spec    *)
(***************************************************************************)

\* C21: the loading flag is down only when no classification call is
\* outstanding, so the symptoms screen reports the analysis as complete,
\* and enables its button, only then; also after a reset and with two
\* calls overlapping.
C21_FlagAccurate ==
    /\ ~isVisionLoading => visionCalls = {}
    /\ (currentScreen = "triage" /\ VisionStatus = "Image Analysis Complete")
       => visionCalls = {}
    /\ (currentScreen = "triage" /\ ~SubmitDisabled) => visionCalls = {}

\* The fields of the session a step changes.
Written == {f \in DOMAIN scanSession : scanSession'[f] # scanSession[f]}

\* The submission made last among those whose timer or request is live:
\* timers run and requests are issued in the order of the clicks.
LastLive ==
    LET pending == {i \in DOMAIN timers : timers[i].kind = "report"}
    IN  IF pending # {}
        THEN timers[CHOOSE i \in pending : \A j \in pending : j <= i]
        ELSE reportCalls[Len(reportCalls)]

\* C22: short of a reset, every write to the session changes its own field
\* and no other: a capture the image, a classification that resolves the
\* classification, a submission the symptoms, a report request that comes
\* back the report or the error, and every other step nothing. So in a
\* run without a reset the session holds the captured image, the symptoms
\* of the last submission, a classification once one has resolved, a
\* report once one has arrived and an error once a request has failed.
C22_NoLostUpdate ==
    /\ [][ generation' = generation
           => /\ Cardinality(Written) <= 1
              /\ captures' # captures => Written \subseteq {"image_url"}
              /\ visionCalls' # visionCalls /\ captures' = captures
                 => Written \subseteq {"vision_result"}
              /\ Len(timers') = Len(timers) + 2
                 => /\ Written \subseteq {"symptoms"}
                    /\ scanSession'.symptoms = Pieces(symptomsInput)
              /\ Len(reportCalls') < Len(reportCalls)
                 => Written \subseteq {"llm_report", "error"}
              /\ ( /\ captures' = captures
                   /\ visionCalls' = visionCalls
                   /\ Len(timers') # Len(timers) + 2
                   /\ Len(reportCalls') >= Len(reportCalls) )
                 => Written = {}
       ]_vars
    /\ []( generation = 0
           => /\ captures > 0
                 => scanSession.image_url \in Images
              /\ writers.vision # None
                 => \E l \in Labels : scanSession.vision_result = Some([label |-> l])
              /\ writers.report # None => scanSession.llm_report \in Reports
              /\ writers.error # None => scanSession.error \in FailureTexts
              /\ (ReportsLive > 0 \/ writers.report # None \/ writers.error # None)
                 => scanSession.symptoms # <<>>
              /\ ReportsLive > 0
                 => scanSession.symptoms = LastLive.body.symptoms )

\* C22 witness: without a reset, a classification has resolved and a
\* request has brought a report while another has failed: the session
\* holds the image, the symptoms, the classification, the report and the
\* error.
C22_Witness ==
    /\ generation = 0
    /\ scanSession.image_url \in Images
    /\ scanSession.symptoms = << <<"a">> >>
    /\ scanSession.vision_result # None
    /\ scanSession.llm_report \in Reports
    /\ scanSession.error \in FailureTexts
    /\ visionCalls = {}
    /\ timers = <<>>
    /\ reportCalls = <<>>

====
